---- MODULE Spec2Model ----
(***************************************************************************)
(* A model of SineWaveGenerator (src/sine_wave_generator/                  *)
(* sine_wave_generator.py): the phase-continuous oscillator bank, the      *)
(* glitch scheduler, bounded (WAV) generation and the start/stop            *)
(* lifecycle of the streaming thread.                                       *)
(*                                                                          *)
(* Units.  Frequencies are whole Hz, so a phase is kept as a whole number   *)
(* of 1/sample_rate cycles: 2*pi is sample_rate units and delta_theta of a  *)
(* channel is its frequency.  Amplitudes are multiples of 1/AmpOne.  A      *)
(* sample is an integer, FullScale standing for 1.0.  Times (glitch         *)
(* interval range, WAV duration) are whole milliseconds.                    *)
(***************************************************************************)
EXTENDS Integers, Sequences, FiniteSets, TLC

\* ------------------------------------------------------------- constants
MIN_SAMPLE_RATE == 8000
MAX_SAMPLE_RATE == 192000
MAX_CHUNK_SIZE == 8192
\* GLITCH_INTERVAL_SECONDS = 1.0, in milliseconds
GLITCH_INTERVAL_MS == 1000

\* amplitude 1.0 in amplitude units, and sin = 1.0 in sine units
AmpOne == 2
SinScale == 1000
FullScale == AmpOne * SinScale

None == "None"
\* the None a field holds that otherwise names a thread, stream or instance
NoId == 0
GlitchType == {"NONE", "DROPOUT", "SKIP", "FULLSCALE"}

\* ------------------------------------------------------------- bounds
\* largest n of a direct _generate_sines(n) call, and of their running sum
MaxN == 3
MaxTotal == 5
\* number of _generate_chunk calls followed in one run of the generator
MaxBlocks == 3
\* largest glitch size tried
MaxGlitchSize == 4
\* number of threads start() may create in one run
MaxThreads == 2
\* number of save_to_wav calls in one run, and the longest duration (ms)
MaxSaves == 1
MaxDuration == 2
\* number of blocks followed in the fixed-interval dropout run
MaxDropoutBlocks == 141
\* number of _generate_chunk calls followed in one run of the earlier class
MaxLegacyBlocks == 5
\* number of _generate_chunk calls followed in the random-interval runs
MaxIntervalBlocks == 10

\* ------------------------------------------------------------- helpers
Min(a, b) == IF a < b THEN a ELSE b
Max(a, b) == IF a > b THEN a ELSE b

\* np.sin of a phase p (in 1/sr cycles), times SinScale: Bhaskara's
\* approximation on whole degrees, odd about pi and 2*pi periodic.
SinDeg(u) == (4 * SinScale * u * (180 - u)) \div (40500 - u * (180 - u))
Sin(p, sr) ==
    LET u == ((p % sr) * 360) \div sr
    IN IF u <= 180 THEN SinDeg(u) ELSE 0 - SinDeg(u - 180)

\* ------------------------------------------------- PhaseOscillatorBank
\* theta_matrix and sine_waves of _generate_sines, interleaved by
\* column_stack(...).flatten(): value i (1-based) is frame (i-1) \div C of
\* channel (i-1) % C + 1, where C is the number of frequencies.
Sines(thetas, frequencies, sample_rate, amplitude, num_samples) ==
    LET C == Len(frequencies)
    IN [i \in 1..(Max(num_samples, 0) * C) |->
          LET ch == ((i - 1) % C) + 1
              n == (i - 1) \div C
          IN amplitude * Sin(thetas[ch] + n * frequencies[ch], sample_rate)]

\* variant: the phase is not carried over to the next call
AdvanceThetas_Stale(thetas, frequencies, sample_rate, num_samples) == thetas

\* self.thetas = (self.thetas + num_samples * delta_theta) % (2 * np.pi)
AdvanceThetas(thetas, frequencies, sample_rate, num_samples) ==
    [c \in 1..Len(frequencies) |->
        (thetas[c] + num_samples * frequencies[c]) % sample_rate]

\* _generate_sines(num_samples) on generator g: the block and g afterwards
generate_sines(g, num_samples) ==
    [out |-> Sines(g.thetas, g.frequencies, g.sample_rate, g.amplitude,
                   num_samples),
     g |-> [g EXCEPT !.thetas = AdvanceThetas(g.thetas, g.frequencies,
                                              g.sample_rate, num_samples)]]

\* ------------------------------------------------------ GlitchScheduler
\* variant: the block count is rounded up instead of truncated
ChunksIn_Ceil(ms, sample_rate, chunk_size) ==
    (ms * sample_rate + 1000 * chunk_size - 1) \div (1000 * chunk_size)

\* int(seconds * sample_rate / chunk_size) for a time given in ms
ChunksIn(ms, sample_rate, chunk_size) ==
    (ms * sample_rate) \div (1000 * chunk_size)

\* the block counts int(random.uniform(lo, hi) * sample_rate / chunk_size)
\* can take: every whole number between the two ends
RandomChunks(g) ==
    ChunksIn(g.glitch_interval_range[1], g.sample_rate, g.chunk_size) ..
    ChunksIn(g.glitch_interval_range[2], g.sample_rate, g.chunk_size)

\* _set_next_glitch_interval, r being the count the random draw gives
set_next_glitch_interval(g, r) ==
    [g EXCEPT !.next_glitch_chunks =
        IF g.random_glitch_interval THEN r
        ELSE g.base_glitch_interval_chunks]

\* numpy's a[lo:hi] = src for one-dimensional arrays succeeds when src has
\* the slice's length or one element (broadcast); otherwise ValueError.
SliceAssignOK(dlen, slen) == slen = dlen \/ slen = 1

\* variant: the slice stops one value early
FillHead_OneShort(chunk, stop, v) ==
    [i \in 1..Len(chunk) |-> IF i < Min(stop, Len(chunk)) THEN v ELSE chunk[i]]

\* interleaved_chunk[: channels * glitch_size] = v  (numpy clamps the slice;
\* a negative stop counts from the end)
FillHead(chunk, stop, v) ==
    LET L == Len(chunk)
        e == IF stop >= 0 THEN Min(stop, L) ELSE Max(L + stop, 0)
    IN [i \in 1..L |-> IF i <= e THEN v ELSE chunk[i]]

\* the DROPOUT branch
ApplyDropout(g, chunk) ==
    [g |-> g, raised |-> None,
     chunk |-> FillHead(chunk, g.channels * g.glitch_size, 0)]

\* variant: the click takes the sign of the first sample
FsSample_SameSign(first) == IF first >= 0 THEN FullScale ELSE 0 - FullScale

\* fs_sample = -1.0 if interleaved_chunk[0] >= 0.0 else 1.0
FsSample(first) == IF first >= 0 THEN 0 - FullScale ELSE FullScale

\* the FULLSCALE branch
ApplyFullscale(g, chunk) ==
    IF Len(chunk) = 0
    THEN [g |-> g, raised |-> "IndexError", chunk |-> chunk]
    ELSE [g |-> g, raised |-> None,
          chunk |-> FillHead(chunk, g.channels * g.glitch_size,
                             FsSample(chunk[1]))]

\* interleaved_chunk[:-samples_to_skip] = interleaved_chunk[samples_to_skip:]
\* for samples_to_skip >= 0: the length of the target slice, of the source
\* slice, and the shifted block
SkipDstLen(L, s) == IF s = 0 THEN 0 ELSE Max(L - s, 0)
SkipSrcLen(L, s) == Max(L - s, 0)
ShiftLeft(chunk, s) ==
    [i \in 1..Len(chunk) |->
        IF i <= Len(chunk) - s THEN chunk[i + s] ELSE chunk[i]]

\* interleaved_chunk[-len(new_samples):] = new_samples: the target slice
\* starts at index TailStart + 1 (a start of -0 is the whole block)
TailStart(L, n) == IF n = 0 THEN 0 ELSE Max(L - n, 0)
PutTail(chunk, new) ==
    LET L == Len(chunk)
        t == TailStart(L, Len(new))
    IN [i \in 1..L |->
          IF i > t THEN (IF Len(new) = 1 THEN new[1] ELSE new[i - t])
          ELSE chunk[i]]

\* the SKIP branch
ApplySkip(g, chunk) ==
    LET L == Len(chunk)
        samples_to_skip == g.channels * g.glitch_size
    IN IF ~SliceAssignOK(SkipDstLen(L, samples_to_skip),
                         SkipSrcLen(L, samples_to_skip))
       THEN [g |-> g, raised |-> "ValueError", chunk |-> chunk]
       ELSE LET shifted == IF samples_to_skip = 0 THEN chunk
                           ELSE ShiftLeft(chunk, samples_to_skip)
                gs == generate_sines(g, g.glitch_size)
                n == Len(gs.out)
            IN IF ~SliceAssignOK(L - TailStart(L, n), n)
               THEN [g |-> gs.g, raised |-> "ValueError", chunk |-> shifted]
               ELSE [g |-> gs.g, raised |-> None,
                     chunk |-> PutTail(shifted, gs.out)]

\* the glitch test of _generate_chunk
GlitchDue(g) == g.glitch_timer >= g.next_glitch_chunks

\* _generate_chunk on generator g, r being the count a random interval
\* draw gives: the generator afterwards, the block returned (when no
\* exception is raised), the exception, and whether the glitch branch ran
generate_chunk(g, r) ==
    LET gs == generate_sines(g, g.chunk_size)
    IN IF GlitchDue(gs.g)
       THEN LET g1 == set_next_glitch_interval(
                          [gs.g EXCEPT !.glitch_timer = 0], r)
                res == CASE g1.glitch_type = "DROPOUT" -> ApplyDropout(g1, gs.out)
                         [] g1.glitch_type = "SKIP" -> ApplySkip(g1, gs.out)
                         [] g1.glitch_type = "FULLSCALE" -> ApplyFullscale(g1, gs.out)
                         [] OTHER -> [g |-> g1, raised |-> None, chunk |-> gs.out]
            IN [g |-> res.g, raised |-> res.raised, chunk |-> res.chunk,
                fired |-> TRUE]
       ELSE [g |-> [gs.g EXCEPT !.glitch_timer = gs.g.glitch_timer + 1],
             raised |-> None, chunk |-> gs.out, fired |-> FALSE]

\* --------------------------------------------------------- construction
\* a frequency is a float: the value float('nan'), for which every
\* comparison is False
NaN == 0 - 1

\* freq <= 0
NotPositive(freq) == freq # NaN /\ freq <= 0

\* freq > sample_rate / 2
AboveNyquist(freq, sample_rate) == freq # NaN /\ 2 * freq > sample_rate

\* the frequency loop of __init__ and set_frequencies passes (ValueError
\* when it does not)
ValidFrequencies(frequencies, sample_rate) ==
    \A i \in 1..Len(frequencies) :
        /\ ~NotPositive(frequencies[i])
        /\ ~AboveNyquist(frequencies[i], sample_rate)

\* the other checks of __init__ (ValueError when one fails)

ValidArgs(a) ==
    /\ a.sample_rate > 0
    /\ MIN_SAMPLE_RATE <= a.sample_rate /\ a.sample_rate <= MAX_SAMPLE_RATE
    /\ ValidFrequencies(a.frequencies, a.sample_rate)
    /\ 0 <= a.amplitude /\ a.amplitude <= AmpOne
    /\ a.channels > 0
    /\ a.bitdepth \in {16, 24, 32}
    /\ a.chunk_size > 0 /\ a.chunk_size <= MAX_CHUNK_SIZE
    /\ a.glitch_interval_range[1] > 0 /\ a.glitch_interval_range[2] > 0
    /\ a.glitch_interval_range[1] <= a.glitch_interval_range[2]

\* the fields __init__ sets before its call of _set_next_glitch_interval
InitFields(a) ==
    [sample_rate |-> a.sample_rate,
     frequencies |-> a.frequencies,
     amplitude |-> a.amplitude,
     channels |-> IF Len(a.frequencies) # a.channels
                  THEN Len(a.frequencies) ELSE a.channels,
     bitdepth |-> a.bitdepth,
     chunk_size |-> a.chunk_size,
     thetas |-> [c \in 1..Len(a.frequencies) |-> 0],
     glitch_type |-> a.glitch_type,
     glitch_size |-> a.glitch_size,
     glitch_timer |-> 0,
     random_glitch_interval |-> a.random_glitch_interval,
     glitch_interval_range |-> a.glitch_interval_range,
     base_glitch_interval_chunks |->
         ChunksIn(GLITCH_INTERVAL_MS, a.sample_rate, a.chunk_size),
     next_glitch_chunks |-> 0]

\* the counts the random draw of _set_next_glitch_interval can give on g
\* (no draw is made with a fixed interval)
Draws(g) == IF g.random_glitch_interval THEN RandomChunks(g) ELSE {0}

\* the generators a successful __init__(a) leaves
Constructed(a) ==
    {set_next_glitch_interval(InitFields(a), r) : r \in Draws(InitFields(a))}

\* ------------------------------------------------------- configurations
\* the constructor arguments tried by the generation runs: chunk sizes and
\* random interval ranges small enough for glitches to fire within a run
FreqLists == {<<1000>>, <<1000, 3000>>}
GenArgs ==
    [sample_rate : {8000},
     frequencies : FreqLists,
     channels : {1},
     amplitude : {1},
     bitdepth : {32},
     chunk_size : {3},
     glitch_type : GlitchType,
     glitch_size : 0..MaxGlitchSize,
     random_glitch_interval : {TRUE},
     glitch_interval_range : {<<1, 1>>}]

\* the arguments of the streaming runs
LifeArgs ==
    [sample_rate : {8000},
     frequencies : {<<1000>>},
     channels : {1},
     amplitude : {2},
     bitdepth : {32},
     chunk_size : {4},
     glitch_type : {"NONE"},
     glitch_size : {10},
     random_glitch_interval : {FALSE},
     glitch_interval_range : {<<500, 2000>>}]

\* ------------------------------------------------------------ variables
VARIABLES
    gen,               \* the generator's configuration, phase and countdown
    blocking,          \* self.blocking
    audio_thread,      \* self.audio_thread: None or a thread
    exit_event,        \* self.exit_event
    stream,            \* self.stream: None or a stream
    pyaudio_instance,  \* self._pyaudio_instance: None or a PyAudio instance
    threads,           \* every thread start() created: its position
    streams,           \* every output stream opened: its state
    instances,         \* every PyAudio instance created: its state
    caller,            \* the driver's position inside start() and stop()
    wav,               \* the position and locals of a save_to_wav call
    files,             \* the writes the file sink received
    last,              \* the latest _generate_chunk call: state before, result
    run,               \* consecutive _generate_sines calls: start, sum, output
    nblocks,           \* number of _generate_chunk calls so far
    error              \* the exception the latest driver call raised, or None

genVars == <<gen, wav, files, last, run, nblocks>>
lifeVars == <<blocking, audio_thread, exit_event, stream, pyaudio_instance,
              threads, streams, instances, caller>>
vars == <<gen, blocking, audio_thread, exit_event, stream, pyaudio_instance,
          threads, streams, instances, caller, wav, files, last, run,
          nblocks, error>>

\* ------------------------------------------------------- initial states
NoThread == [pc |-> "unborn", chunk |-> <<>>, cause |-> None]
NoCall == [start |-> "idle", start_target |-> NoId,
           stop |-> "idle", stop_target |-> NoId,
           elapsed |-> FALSE, warned |-> FALSE]
WavIdle == [pc |-> "idle", calls |-> 0, num_samples |-> 0, chunks_left |-> 0,
            remaining_samples |-> 0, all_samples |-> <<>>, offset |-> 0]

\* the state a successful __init__(a) leaves, before any call
InitWith(a, b, n) ==
    /\ ValidArgs(a)
    /\ gen \in Constructed(a)
    /\ blocking = b
    /\ audio_thread = NoId
    /\ exit_event = FALSE
    /\ stream = NoId
    /\ pyaudio_instance = NoId
    /\ threads = [t \in 1..n |-> NoThread]
    /\ streams = [t \in 1..n |-> [state |-> "none", inst |-> NoId, written |-> 0,
                     format |-> None, dtype |-> None]]
    /\ instances = [t \in 1..n |-> "none"]
    /\ caller = NoCall
    /\ wav = WavIdle
    /\ files = <<>>
    /\ last = [called |-> FALSE, before |-> gen, fired |-> FALSE,
               raised |-> None, chunk |-> <<>>, thetas |-> gen.thetas]
    /\ run = [thetas0 |-> gen.thetas, total |-> 0, out |-> <<>>]
    /\ nblocks = 0
    /\ error = None

\* ------------------------------------------------ generation operations
\* what every _generate_chunk call leaves behind, res being its result on
\* the generator g it was called on
Called(g, res) ==
    /\ last' = [called |-> TRUE, before |-> g, fired |-> res.fired,
                raised |-> res.raised, chunk |-> res.chunk,
                thetas |-> res.g.thetas]
    /\ nblocks' = nblocks + 1

\* a new run of _generate_sines calls starts from the phase of g
NewRun(g) == [thetas0 |-> g.thetas, total |-> 0, out |-> <<>>]

\* a direct call _generate_sines(n)
CallGenerateSines(n) ==
    /\ wav.pc = "idle"
    /\ run.total + n <= MaxTotal
    /\ LET res == generate_sines(gen, n)
       IN /\ gen' = res.g
          /\ run' = [run EXCEPT !.total = @ + n, !.out = @ \o res.out]
    /\ error' = None
    /\ UNCHANGED <<wav, files, last, nblocks>>
    /\ UNCHANGED lifeVars

\* a direct call _generate_chunk(), among the first limit calls of the run
GenerateChunkUpTo(limit) ==
    /\ wav.pc = "idle"
    /\ nblocks < limit
    /\ \E r \in Draws(gen) :
         LET res == generate_chunk(gen, r)
         IN /\ gen' = res.g
            /\ Called(gen, res)
            /\ run' = NewRun(res.g)
            /\ error' = res.raised
    /\ UNCHANGED <<wav, files>>
    /\ UNCHANGED lifeVars

CallGenerateChunk == GenerateChunkUpTo(MaxBlocks)

\* np.zeros(len(self.frequencies))
ZeroThetas(n) == [c \in 1..n |-> 0]

\* set_frequencies(frequencies), r being the count the random draw of its
\* _set_next_glitch_interval() gives
set_frequencies(g, frequencies, r) ==
    IF ~ValidFrequencies(frequencies, g.sample_rate)
    THEN [g |-> g, raised |-> "ValueError"]
    ELSE [g |-> set_next_glitch_interval(
                    [g EXCEPT !.frequencies = frequencies,
                              !.thetas = ZeroThetas(Len(frequencies))],
                    r),
          raised |-> None]

SetFrequencies(frequencies) ==
    /\ wav.pc = "idle"
    /\ caller.start = "idle" /\ caller.stop = "idle"
    /\ \E r \in Draws(gen) :
         LET res == set_frequencies(gen, frequencies, r)
         IN /\ gen' = res.g
            /\ run' = NewRun(res.g)
            /\ error' = res.raised
    /\ UNCHANGED <<wav, files, last, nblocks>>
    /\ UNCHANGED lifeVars

\* SineWaveGenerator(**a): a generator replaces the one at hand when the
\* constructor returns, and nothing changes when it raises
Construct(a) ==
    /\ wav.pc = "idle"
    /\ caller.start = "idle" /\ caller.stop = "idle"
    /\ IF ValidArgs(a)
       THEN /\ gen' \in Constructed(a)
            /\ run' = NewRun(gen')
            /\ error' = None
       ELSE /\ error' = "ValueError"
            /\ UNCHANGED <<gen, run>>
    /\ UNCHANGED <<wav, files, last, nblocks>>
    /\ UNCHANGED lifeVars

\* ---------------------------------------------------------- bounded mode
\* int(self.sample_rate * duration), duration in ms
FramesIn(ms, sample_rate) == (sample_rate * ms) \div 1000

\* _generate_clean_samples(num_samples)
generate_clean_samples(g, num_samples) ==
    [out |-> Sines(g.thetas, g.frequencies, g.sample_rate, g.amplitude,
                   num_samples),
     g |-> [g EXCEPT !.thetas = AdvanceThetas(g.thetas, g.frequencies,
                                              g.sample_rate, num_samples)]]

\* a cell of np.empty(...) nothing was stored in yet, and the values such a
\* cell may turn out to hold
Unset == FullScale + 1
Garbage == {0, FullScale}

\* all_samples[offset : offset + chunk_size] = chunk
PutAtOK(all, offset, chunk) ==
    SliceAssignOK(Min(offset + Len(chunk), Len(all)) - Min(offset, Len(all)),
                  Len(chunk))
PutAt(all, offset, chunk) ==
    LET lo == Min(offset, Len(all))
        hi == Min(offset + Len(chunk), Len(all))
    IN [i \in 1..Len(all) |->
          IF lo < i /\ i <= hi
          THEN (IF Len(chunk) = 1 THEN chunk[1] ELSE chunk[i - lo])
          ELSE all[i]]

\* where _generate_samples_with_glitches goes after its loop has
\* chunks_left rounds to go
WavNext(chunks_left, remaining_samples) ==
    IF chunks_left > 0 THEN "chunks"
    ELSE IF remaining_samples > 0 THEN "rest" ELSE "write"

\* a save_to_wav call ends by raising
WavRaise(exc) ==
    /\ wav' = [WavIdle EXCEPT !.calls = wav.calls]
    /\ error' = exc

\* save_to_wav(duration, filename) up to the first block: the duration
\* check, num_samples, and either the clean samples in one piece or the
\* allocation of all_samples
SaveBegin(duration) ==
    /\ wav.pc = "idle"
    /\ caller.start = "idle" /\ caller.stop = "idle"
    /\ wav.calls < MaxSaves
    /\ IF duration <= 0
       THEN /\ wav' = [wav EXCEPT !.calls = @ + 1]
            /\ error' = "ValueError"
            /\ UNCHANGED <<gen, run>>
       ELSE LET num_samples == FramesIn(duration, gen.sample_rate)
            IN /\ error' = None
               /\ IF gen.glitch_type = "NONE"
                  THEN LET res == generate_clean_samples(gen, num_samples)
                       IN /\ gen' = res.g
                          /\ run' = NewRun(res.g)
                          /\ wav' = [pc |-> "write",
                                     calls |-> wav.calls + 1,
                                     num_samples |-> num_samples,
                                     chunks_left |-> 0,
                                     remaining_samples |-> 0,
                                     all_samples |-> res.out,
                                     offset |-> Len(res.out)]
                  ELSE /\ wav' = [pc |-> WavNext(num_samples \div gen.chunk_size,
                                                 num_samples % gen.chunk_size),
                                  calls |-> wav.calls + 1,
                                  num_samples |-> num_samples,
                                  chunks_left |-> num_samples \div gen.chunk_size,
                                  remaining_samples |-> num_samples % gen.chunk_size,
                                  all_samples |->
                                      [i \in 1..(num_samples * gen.channels) |-> Unset],
                                  offset |-> 0]
                       /\ UNCHANGED <<gen, run>>
    /\ UNCHANGED <<files, last, nblocks>>
    /\ UNCHANGED lifeVars

\* one round of the loop over the full chunks
SaveChunk ==
    /\ wav.pc = "chunks"
    /\ \E r \in Draws(gen) :
         LET res == generate_chunk(gen, r)
         IN /\ gen' = res.g
            /\ Called(gen, res)
            /\ run' = NewRun(res.g)
            /\ IF res.raised # None
               THEN WavRaise(res.raised)
               ELSE IF ~PutAtOK(wav.all_samples, wav.offset, res.chunk)
               THEN WavRaise("ValueError")
               ELSE /\ wav' = [wav EXCEPT
                                 !.pc = WavNext(wav.chunks_left - 1,
                                                wav.remaining_samples),
                                 !.chunks_left = @ - 1,
                                 !.all_samples = PutAt(@, wav.offset, res.chunk),
                                 !.offset = @ + Len(res.chunk)]
                    /\ error' = None
    /\ UNCHANGED files
    /\ UNCHANGED lifeVars

\* the final partial block: chunk_size is the remainder for the one call
\* and is restored by the finally clause whether or not the call raised
SaveRest ==
    /\ wav.pc = "rest"
    /\ LET original_chunk_size == gen.chunk_size
           short == [gen EXCEPT !.chunk_size = wav.remaining_samples]
       IN \E r \in Draws(short) :
            LET res == generate_chunk(short, r)
                restored == [res.g EXCEPT !.chunk_size = original_chunk_size]
            IN /\ gen' = restored
               /\ Called(short, res)
               /\ run' = NewRun(restored)
               /\ IF res.raised # None
                  THEN WavRaise(res.raised)
                  ELSE IF ~PutAtOK(wav.all_samples, wav.offset, res.chunk)
                  THEN WavRaise("ValueError")
                  ELSE /\ wav' = [wav EXCEPT
                                    !.pc = "write",
                                    !.all_samples = PutAt(@, wav.offset, res.chunk)]
                       /\ error' = None
    /\ UNCHANGED files
    /\ UNCHANGED lifeVars

\* samples.reshape(-1, self.channels) and wavfile.write(...): cells never
\* stored in hold whatever np.empty left there
SaveWrite ==
    /\ wav.pc = "write"
    /\ IF gen.channels = 0 \/ Len(wav.all_samples) % gen.channels # 0
       THEN /\ WavRaise("ValueError")
            /\ UNCHANGED files
       ELSE /\ \E u \in IF \E i \in 1..Len(wav.all_samples) :
                              wav.all_samples[i] = Unset
                        THEN Garbage ELSE {0} :
                 files' = Append(files,
                    [rate |-> gen.sample_rate,
                     channels |-> gen.channels,
                     frames |-> Len(wav.all_samples) \div gen.channels,
                     samples |-> [i \in 1..Len(wav.all_samples) |->
                                    IF wav.all_samples[i] = Unset THEN u
                                    ELSE wav.all_samples[i]]])
            /\ wav' = [WavIdle EXCEPT !.calls = wav.calls]
            /\ error' = None
    /\ UNCHANGED <<gen, last, run, nblocks>>
    /\ UNCHANGED lifeVars

\* generation, bounded mode and the frequency mutator on a generator that
\* is not streaming
GenInit == \E a \in GenArgs : InitWith(a, TRUE, MaxThreads)
GenNext ==
    \/ CallGenerateChunk
    \/ \E f \in FreqLists : SetFrequencies(f)
    \/ \E d \in 0..MaxDuration : SaveBegin(d)
    \/ SaveChunk
    \/ SaveRest
    \/ SaveWrite
SpecGen == GenInit /\ [][GenNext]_vars

\* runs of direct _generate_sines calls, between block calls that move the
\* phase the next run starts from
SinesNext ==
    \/ \E n \in 0..MaxN : CallGenerateSines(n)
    \/ CallGenerateChunk
    \/ \E f \in FreqLists : SetFrequencies(f)
SpecSines == GenInit /\ [][SinesNext]_vars

\* the first blocks of a freshly constructed generator with a DROPOUT of
\* size 100 on two channels, 1024-frame blocks at 48000 Hz, fixed interval
DropoutArgs ==
    [sample_rate |-> 48000,
     frequencies |-> <<440, 1000>>,
     channels |-> 2,
     amplitude |-> 1,
     bitdepth |-> 32,
     chunk_size |-> 1024,
     glitch_type |-> "DROPOUT",
     glitch_size |-> 100,
     random_glitch_interval |-> FALSE,
     glitch_interval_range |-> <<500, 2000>>]
DropoutInit == \E b \in BOOLEAN : InitWith(DropoutArgs, b, MaxThreads)
DropoutNext == GenerateChunkUpTo(MaxDropoutBlocks)
SpecDropout == DropoutInit /\ [][DropoutNext]_vars

\* ------------------------------------------------------- streaming mode
\* variant: a thread in its cleanup no longer counts as alive
IsAlive_InLoop(th, t) == th[t].pc \in {"init", "open", "loop", "write"}

\* threading.Thread.is_alive()
IsAlive(th, t) == th[t].pc \notin {"unborn", "done"}

\* variant: start() never rejects a call
AlreadyRunning_Never(at, th) == FALSE

\* the test start() rejects a call on
AlreadyRunning(at, th) == at # NoId /\ IsAlive(th, at)

\* variant: start() leaves the event as stop() set it
Cleared_Kept(e) == e

\* self.exit_event.clear()
Cleared(e) == FALSE

\* the threads start() has not created yet
Unborn == {t \in DOMAIN threads : threads[t].pc = "unborn"}

\* the blocking argument of start()
BlockingArgs == {None, "True", "False"}

\* start(blocking=b), up to its join
Start(b) ==
    /\ caller.start = "idle" /\ caller.stop = "idle"
    /\ wav.pc = "idle"
    /\ IF AlreadyRunning(audio_thread, threads)
       THEN /\ error' = "RuntimeError"
            /\ UNCHANGED <<blocking, audio_thread, exit_event, threads, caller>>
       ELSE /\ Unborn # {}
            /\ LET t == CHOOSE u \in Unborn : \A v \in Unborn : u <= v
                   bl == IF b # None THEN b = "True" ELSE blocking
               IN /\ blocking' = bl
                  /\ exit_event' = Cleared(exit_event)
                  /\ audio_thread' = t
                  /\ threads' = [threads EXCEPT ![t].pc = "init"]
                  /\ caller' = IF bl
                               THEN [caller EXCEPT !.start = "join",
                                                   !.start_target = t]
                               ELSE caller
            /\ error' = None
    /\ UNCHANGED <<stream, pyaudio_instance, streams, instances>>
    /\ UNCHANGED genVars

\* the join() a blocking start() ends with returns
StartReturn ==
    /\ caller.start = "join" /\ caller.stop = "idle"
    /\ ~IsAlive(threads, caller.start_target)
    /\ caller' = [caller EXCEPT !.start = "idle", !.start_target = NoId]
    /\ UNCHANGED <<blocking, audio_thread, exit_event, stream,
                   pyaudio_instance, threads, streams, instances, error>>
    /\ UNCHANGED genVars

\* stop() up to its join: from the driver, or from a signal handler while
\* a blocking start() is joining
Stop ==
    /\ caller.stop = "idle"
    /\ wav.pc = "idle"
    /\ IF audio_thread = NoId
       THEN UNCHANGED <<audio_thread, exit_event, caller>>
       ELSE /\ exit_event' = TRUE
            /\ IF IsAlive(threads, audio_thread)
               THEN /\ caller' = [caller EXCEPT !.stop = "join",
                                                !.stop_target = audio_thread,
                                                !.elapsed = FALSE,
                                                !.warned = FALSE]
                    /\ UNCHANGED audio_thread
               ELSE /\ audio_thread' = NoId
                    /\ caller' = [caller EXCEPT !.warned = FALSE]
    /\ error' = None
    /\ UNCHANGED <<blocking, stream, pyaudio_instance, threads, streams,
                   instances>>
    /\ UNCHANGED genVars

\* THREAD_STOP_TIMEOUT passes while stop() joins a thread whose sink write
\* is pending
Timeout ==
    /\ caller.stop = "join" /\ ~caller.elapsed
    /\ threads[caller.stop_target].pc = "write"
    /\ caller' = [caller EXCEPT !.elapsed = TRUE]
    /\ UNCHANGED <<blocking, audio_thread, exit_event, stream,
                   pyaudio_instance, threads, streams, instances, error>>
    /\ UNCHANGED genVars

\* variant: a join with no timeout
JoinReturns_NoTimeout(th, c) == ~IsAlive(th, c.stop_target)

\* join(timeout=THREAD_STOP_TIMEOUT) returns: the thread has ended or the
\* timeout has passed
JoinReturns(th, c) == ~IsAlive(th, c.stop_target) \/ c.elapsed

\* the rest of stop(): the warning and self.audio_thread = None
StopReturn ==
    /\ caller.stop = "join"
    /\ JoinReturns(threads, caller)
    /\ caller' = [caller EXCEPT !.stop = "idle",
                                !.warned = IsAlive(threads, caller.stop_target)]
    /\ audio_thread' = NoId
    /\ UNCHANGED <<blocking, exit_event, stream, pyaudio_instance, threads,
                   streams, instances, error>>
    /\ UNCHANGED genVars

\* ---- _play_audio, run by thread t
\* _get_pyaudio_format: format_map.get(self.bitdepth, pyaudio.paFloat32)
get_pyaudio_format(bitdepth) ==
    CASE bitdepth = 16 -> "paInt16"
      [] bitdepth = 24 -> "paInt24"
      [] bitdepth = 32 -> "paFloat32"
      [] OTHER -> "paFloat32"

\* the element type of the bytes sine_wave_chunk.tobytes() gives: the
\* block is the .astype(np.float32) array of _generate_sines, and no
\* branch of _generate_chunk converts it
ChunkDType == "float32"

\* the element type a stream opened with a format takes its bytes as
FormatDType(format) ==
    CASE format = "paInt16" -> "int16"
      [] format = "paInt24" -> "int24"
      [] format = "paFloat32" -> "float32"

Goto(t, pc) == threads' = [threads EXCEPT ![t].pc = pc]
Leave(t, pc, cause) ==
    threads' = [threads EXCEPT ![t].pc = pc, ![t].cause = cause]

\* self._pyaudio_instance = pyaudio.PyAudio(), outside the try: when it
\* raises the thread ends with nothing created
PlayInit(t) ==
    /\ threads[t].pc = "init"
    /\ \E ok \in BOOLEAN :
         IF ok
         THEN /\ instances' = [instances EXCEPT ![t] = "live"]
              /\ pyaudio_instance' = t
              /\ Goto(t, "open")
         ELSE /\ Leave(t, "done", "init_failed")
              /\ UNCHANGED <<instances, pyaudio_instance>>
    /\ UNCHANGED <<blocking, audio_thread, exit_event, stream, streams,
                   caller, error>>
    /\ UNCHANGED genVars

\* self.stream = self._pyaudio_instance.open(...): raises when the field
\* holds None or a terminated instance, or when the device fails
PlayOpen(t) ==
    /\ threads[t].pc = "open"
    /\ \E ok \in BOOLEAN :
         IF /\ ok
            /\ pyaudio_instance # NoId
            /\ instances[pyaudio_instance] = "live"
         THEN /\ streams' = [streams EXCEPT ![t] =
                    [state |-> "open", inst |-> pyaudio_instance, written |-> 0,
                     format |-> get_pyaudio_format(gen.bitdepth),
                     dtype |-> None]]
              /\ stream' = t
              /\ Goto(t, "loop")
         ELSE /\ Leave(t, "fin_pa", "open_failed")
              /\ UNCHANGED <<streams, stream>>
    /\ UNCHANGED <<blocking, audio_thread, exit_event, pyaudio_instance,
                   instances, caller, error>>
    /\ UNCHANGED genVars

\* the loop test, and on a clear event the block of this iteration
PlayLoop(t) ==
    /\ threads[t].pc = "loop"
    /\ IF exit_event
       THEN /\ Leave(t, "fin_stream", "stopped")
            /\ UNCHANGED genVars
       ELSE /\ nblocks < MaxBlocks
            /\ \E r \in Draws(gen) :
                 LET res == generate_chunk(gen, r)
                 IN /\ gen' = res.g
                    /\ Called(gen, res)
                    /\ run' = NewRun(res.g)
                    /\ IF res.raised # None
                       THEN Leave(t, "fin_stream", "generate_failed")
                       ELSE threads' = [threads EXCEPT ![t].pc = "write",
                                                       ![t].chunk = res.chunk]
            /\ UNCHANGED <<wav, files>>
    /\ UNCHANGED <<blocking, audio_thread, exit_event, stream,
                   pyaudio_instance, streams, instances, caller, error>>

\* self.stream.write(...): raises when the field holds None or a closed
\* stream, or when the sink fails
PlayWrite(t) ==
    /\ threads[t].pc = "write"
    /\ \E ok \in BOOLEAN :
         IF ok /\ stream # NoId /\ streams[stream].state = "open"
         THEN /\ streams' = [streams EXCEPT ![stream].written = @ + 1,
                                            ![stream].dtype = ChunkDType]
              /\ threads' = [threads EXCEPT ![t].pc = "loop", ![t].chunk = <<>>]
         ELSE /\ threads' = [threads EXCEPT ![t].pc = "fin_stream",
                                            ![t].chunk = <<>>,
                                            ![t].cause = "write_failed"]
              /\ UNCHANGED streams
    /\ UNCHANGED <<blocking, audio_thread, exit_event, stream,
                   pyaudio_instance, instances, caller, error>>
    /\ UNCHANGED genVars

\* the inner finally: if self.stream: stop_stream(); close().  Closing a
\* stream that is closed already may raise, which skips the assignment.
PlayCloseStream(t) ==
    /\ threads[t].pc = "fin_stream"
    /\ IF stream = NoId
       THEN /\ Goto(t, "fin_pa")
            /\ UNCHANGED streams
       ELSE IF streams[stream].state = "open"
       THEN /\ streams' = [streams EXCEPT ![stream].state = "closed"]
            /\ Goto(t, "fin_none")
       ELSE /\ \E raises \in BOOLEAN :
                 Goto(t, IF raises THEN "fin_pa" ELSE "fin_none")
            /\ UNCHANGED streams
    /\ UNCHANGED <<blocking, audio_thread, exit_event, stream,
                   pyaudio_instance, instances, caller, error>>
    /\ UNCHANGED genVars

\* self.stream = None
PlayClearStream(t) ==
    /\ threads[t].pc = "fin_none"
    /\ stream' = NoId
    /\ Goto(t, "fin_pa")
    /\ UNCHANGED <<blocking, audio_thread, exit_event, pyaudio_instance,
                   streams, instances, caller, error>>
    /\ UNCHANGED genVars

\* PyAudio.terminate() closes the streams opened on the instance
Terminated(ss, p) ==
    [s \in DOMAIN ss |->
        IF ss[s].inst = p /\ ss[s].state = "open"
        THEN [ss[s] EXCEPT !.state = "closed"] ELSE ss[s]]

\* the outer finally: if self._pyaudio_instance: terminate()
PlayTerminate(t) ==
    /\ threads[t].pc = "fin_pa"
    /\ IF pyaudio_instance = NoId
       THEN /\ Goto(t, "done")
            /\ UNCHANGED <<instances, streams>>
       ELSE /\ instances' = [instances EXCEPT ![pyaudio_instance] = "terminated"]
            /\ streams' = Terminated(streams, pyaudio_instance)
            /\ Goto(t, "fin_pa_none")
    /\ UNCHANGED <<blocking, audio_thread, exit_event, stream,
                   pyaudio_instance, caller, error>>
    /\ UNCHANGED genVars

\* self._pyaudio_instance = None, and the thread ends
PlayClearInstance(t) ==
    /\ threads[t].pc = "fin_pa_none"
    /\ pyaudio_instance' = NoId
    /\ Goto(t, "done")
    /\ UNCHANGED <<blocking, audio_thread, exit_event, stream, streams,
                   instances, caller, error>>
    /\ UNCHANGED genVars

play_audio(t) ==
    \/ PlayInit(t)
    \/ PlayOpen(t)
    \/ PlayLoop(t)
    \/ PlayWrite(t)
    \/ PlayCloseStream(t)
    \/ PlayClearStream(t)
    \/ PlayTerminate(t)
    \/ PlayClearInstance(t)

\* the driver starts and stops the generator while its threads run
Init == \E a \in LifeArgs : \E b \in BOOLEAN : InitWith(a, b, MaxThreads)
Next ==
    \/ \E b \in BlockingArgs : Start(b)
    \/ StartReturn
    \/ Stop
    \/ Timeout
    \/ StopReturn
    \/ \E t \in DOMAIN threads : play_audio(t)
Spec == Init /\ [][Next]_vars

\* the steps of _play_audio that need nothing from the sink
PlayProgress(t) ==
    \/ PlayInit(t)
    \/ PlayOpen(t)
    \/ PlayLoop(t)
    \/ PlayCloseStream(t)
    \/ PlayClearStream(t)
    \/ PlayTerminate(t)
    \/ PlayClearInstance(t)

\* the same driver under the scheduling the code relies on: a thread that
\* is not waiting for the sink keeps running, the timeout of a join passes
\* while the write it waits for is pending, and a join that can return
\* does.  A pending sink write is never forced to finish.
Fairness ==
    /\ WF_vars(Timeout)
    /\ WF_vars(StopReturn)
    /\ \A t \in 1..MaxThreads : WF_vars(PlayProgress(t))
SpecFair == Spec /\ Fairness

\* the same scheduling with a sink whose every pending write returns
WritesReturn == \A t \in 1..MaxThreads : WF_vars(PlayWrite(t))
SpecWritesReturn == Spec /\ Fairness /\ WritesReturn

\* the same driver with room for one more start() after two timed-out stops
InitRestarts ==
    \E a \in LifeArgs : \E b \in BOOLEAN : InitWith(a, b, MaxThreads + 1)
SpecRestarts == InitRestarts /\ [][Next]_vars

\* frequency lists tried on the constructor and on set_frequencies, at two
\* sample rates
TryValues == {NaN, 0, 440, 4000, 4001, 8000}
TryLists ==
    {<<f>> : f \in TryValues} \cup {<<f, h>> : f, h \in TryValues}
TryArgs ==
    [sample_rate : {8000, 16000},
     frequencies : TryLists,
     channels : {1},
     amplitude : {1},
     bitdepth : {32},
     chunk_size : {3},
     glitch_type : {"NONE"},
     glitch_size : {1},
     random_glitch_interval : {FALSE},
     glitch_interval_range : {<<500, 2000>>}]
TryInit ==
    \E a \in TryArgs :
        /\ a.sample_rate = 8000 /\ a.frequencies = <<440>>
        /\ InitWith(a, TRUE, 1)
TryNext ==
    \/ \E a \in TryArgs : Construct(a)
    \/ \E f \in TryLists : SetFrequencies(f)
SpecTry == TryInit /\ [][TryNext]_vars

\* the driver also calls set_frequencies and save_to_wav, which nothing in
\* the code forbids while a thread streams
SharedArgs ==
    [sample_rate |-> 8000,
     frequencies |-> <<1000>>,
     channels |-> 1,
     amplitude |-> 1,
     bitdepth |-> 32,
     chunk_size |-> 3,
     glitch_type |-> "DROPOUT",
     glitch_size |-> 1,
     random_glitch_interval |-> TRUE,
     glitch_interval_range |-> <<1, 1>>]
SharedInit == InitWith(SharedArgs, FALSE, 1)
SharedNext ==
    \/ Next
    \/ \E f \in FreqLists : SetFrequencies(f)
    \/ SaveBegin(1)
    \/ SaveChunk
    \/ SaveRest
    \/ SaveWrite
SpecShared == SharedInit /\ [][SharedNext]_vars

\* ---- streaming at every bit depth the constructor accepts
FormatArgs ==
    [sample_rate : {8000},
     frequencies : {<<1000>>},
     channels : {1},
     amplitude : {2},
     bitdepth : {16, 24, 32},
     chunk_size : {4},
     glitch_type : {"NONE"},
     glitch_size : {10},
     random_glitch_interval : {FALSE},
     glitch_interval_range : {<<500, 2000>>}]
FormatInit == \E a \in FormatArgs : InitWith(a, FALSE, 1)
SpecFormat == FormatInit /\ [][Next]_vars

\* ---- random glitch intervals over a range, in direct calls and bounded
\* mode: [1 ms, 2 ms] is 2 to 5 blocks of 3 frames at 8000 Hz
IntervalArgs ==
    [sample_rate |-> 8000, frequencies |-> <<1000>>, channels |-> 1,
     amplitude |-> 1, bitdepth |-> 32, chunk_size |-> 3,
     glitch_type |-> "DROPOUT", glitch_size |-> 1,
     random_glitch_interval |-> TRUE, glitch_interval_range |-> <<1, 2>>]
IntervalInit == InitWith(IntervalArgs, TRUE, 1)
IntervalNext ==
    \/ GenerateChunkUpTo(MaxIntervalBlocks)
    \/ SetFrequencies(<<1000>>)
    \/ SaveBegin(1)
    \/ SaveChunk
    \/ SaveRest
    \/ SaveWrite
SpecInterval == IntervalInit /\ [][IntervalNext]_vars

\* ------- the earlier class, src/sinewavegenerator/sine_wave_generator.py
\* The generator is held in gen with the fields this class has; its one
\* thread, created by __init__, is threads[1].

\* numpy broadcasting of thetas[:, None] with delta_theta[:, None]: the
\* row counts agree or one of them is 1
RowsAgree(nt, nf) == nt = nf \/ nt = 1 \/ nf = 1
Row(seq, c) == IF Len(seq) = 1 THEN seq[1] ELSE seq[c]

\* _generate_sines(num_samples) of the earlier class: raises before any
\* assignment when the rows do not agree
LegacyGenerateSines(g, num_samples) ==
    IF ~RowsAgree(Len(g.thetas), Len(g.frequencies))
    THEN [out |-> <<>>, g |-> g, raised |-> "ValueError"]
    ELSE LET C == Max(Len(g.thetas), Len(g.frequencies))
         IN [out |-> [i \in 1..(Max(num_samples, 0) * C) |->
                        LET ch == ((i - 1) % C) + 1
                            n == (i - 1) \div C
                        IN g.amplitude * Sin(Row(g.thetas, ch)
                                             + n * Row(g.frequencies, ch),
                                             g.sample_rate)],
             g |-> [g EXCEPT !.thetas =
                      [c \in 1..C |->
                         (Row(g.thetas, c) + num_samples * Row(g.frequencies, c))
                             % g.sample_rate]],
             raised |-> None]

\* interleaved_chunk[self.channels * self.glitch_size :]
DropHead(chunk, s) ==
    IF s >= Len(chunk) THEN <<>> ELSE SubSeq(chunk, s + 1, Len(chunk))

\* the SKIP branch of the earlier class: the head is cut off and
\* glitch_size new frames are appended
LegacySkip(g, chunk) ==
    LET gs == LegacyGenerateSines(g, g.glitch_size)
    IN [g |-> gs.g, raised |-> gs.raised,
        chunk |-> DropHead(chunk, g.channels * g.glitch_size) \o gs.out]

\* self.glitch_timer > self.sample_rate / self.chunk_size
LegacyGlitchDue(g) == g.glitch_timer * g.chunk_size > g.sample_rate

\* _generate_chunk of the earlier class
LegacyGenerateChunk(g) ==
    LET gs == LegacyGenerateSines(g, g.chunk_size)
    IN IF gs.raised # None
       THEN [g |-> g, raised |-> gs.raised, chunk |-> <<>>, fired |-> FALSE]
       ELSE IF LegacyGlitchDue(gs.g)
       THEN LET g1 == [gs.g EXCEPT !.glitch_timer = 0]
                res == CASE g1.glitch_type = "DROPOUT" -> ApplyDropout(g1, gs.out)
                         [] g1.glitch_type = "SKIP" -> LegacySkip(g1, gs.out)
                         [] g1.glitch_type = "FULLSCALE" -> ApplyFullscale(g1, gs.out)
                         [] OTHER -> [g |-> g1, raised |-> None, chunk |-> gs.out]
            IN [g |-> res.g, raised |-> res.raised, chunk |-> res.chunk,
                fired |-> TRUE]
       ELSE [g |-> [gs.g EXCEPT !.glitch_timer = gs.g.glitch_timer + 1],
             raised |-> None, chunk |-> gs.out, fired |-> FALSE]

\* set_frequencies of the earlier class: self.frequencies = frequencies
LegacySetFrequenciesOf(g, frequencies) ==
    [g EXCEPT !.frequencies = frequencies]

\* __init__ of the earlier class: no argument is checked
LegacyFields(a) ==
    [sample_rate |-> a.sample_rate,
     frequencies |-> a.frequencies,
     amplitude |-> a.amplitude,
     channels |-> IF Len(a.frequencies) # a.channels
                  THEN Len(a.frequencies) ELSE a.channels,
     bitdepth |-> a.bitdepth,
     chunk_size |-> a.chunk_size,
     thetas |-> [c \in 1..Len(a.frequencies) |-> 0],
     glitch_type |-> a.glitch_type,
     glitch_size |-> a.glitch_size,
     glitch_timer |-> 0]

\* a sample rate low enough for the glitch test to pass within a run
LegacyFreqLists == {<<1>>, <<1, 3>>, <<1, 2, 3>>}
LegacyArgs ==
    [sample_rate : {8},
     frequencies : LegacyFreqLists,
     channels : {1},
     amplitude : {1},
     bitdepth : {32},
     chunk_size : {3},
     glitch_type : GlitchType,
     glitch_size : {1},
     blocking : BOOLEAN]

LegacyInitWith(a) ==
    /\ gen = LegacyFields(a)
    /\ blocking = a.blocking
    /\ audio_thread = 1
    /\ exit_event = FALSE
    /\ stream = NoId
    /\ pyaudio_instance = NoId
    /\ threads = [t \in 1..1 |-> NoThread]
    /\ streams = [t \in 1..1 |-> [state |-> "none", inst |-> NoId, written |-> 0,
                     format |-> None, dtype |-> None]]
    /\ instances = [t \in 1..1 |-> "none"]
    /\ caller = NoCall
    /\ wav = WavIdle
    /\ files = <<>>
    /\ last = [called |-> FALSE, before |-> gen, fired |-> FALSE,
               raised |-> None, chunk |-> <<>>, thetas |-> gen.thetas]
    /\ run = [thetas0 |-> gen.thetas, total |-> 0, out |-> <<>>]
    /\ nblocks = 0
    /\ error = None

\* a direct call _generate_chunk()
LegacyCallGenerateChunk ==
    /\ wav.pc = "idle"
    /\ caller.start = "idle" /\ caller.stop = "idle"
    /\ nblocks < MaxLegacyBlocks
    /\ LET res == LegacyGenerateChunk(gen)
       IN /\ gen' = res.g
          /\ Called(gen, res)
          /\ run' = NewRun(res.g)
          /\ error' = res.raised
    /\ UNCHANGED <<wav, files>>
    /\ UNCHANGED lifeVars

LegacySetFrequencies(frequencies) ==
    /\ wav.pc = "idle"
    /\ caller.start = "idle" /\ caller.stop = "idle"
    /\ gen' = LegacySetFrequenciesOf(gen, frequencies)
    /\ run' = NewRun(gen')
    /\ error' = None
    /\ UNCHANGED <<wav, files, last, nblocks>>
    /\ UNCHANGED lifeVars

\* save_to_wav(duration, filename) of the earlier class, duration in whole
\* seconds, up to its first block: wav.offset counts the blocks appended
\* to the list all_samples
LegacySaveBegin(duration) ==
    /\ wav.pc = "idle"
    /\ caller.start = "idle" /\ caller.stop = "idle"
    /\ wav.calls < MaxSaves
    /\ LET num_samples == gen.sample_rate * duration
       IN wav' = [pc |-> WavNext(num_samples \div gen.chunk_size,
                                 num_samples % gen.chunk_size),
                  calls |-> wav.calls + 1,
                  num_samples |-> num_samples,
                  chunks_left |-> num_samples \div gen.chunk_size,
                  remaining_samples |-> num_samples % gen.chunk_size,
                  all_samples |-> <<>>,
                  offset |-> 0]
    /\ error' = None
    /\ UNCHANGED <<gen, run, files, last, nblocks>>
    /\ UNCHANGED lifeVars

\* one round of the loop over the full chunks
LegacySaveChunk ==
    /\ wav.pc = "chunks"
    /\ LET res == LegacyGenerateChunk(gen)
       IN /\ gen' = res.g
          /\ Called(gen, res)
          /\ run' = NewRun(res.g)
          /\ IF res.raised # None
             THEN WavRaise(res.raised)
             ELSE /\ wav' = [wav EXCEPT
                               !.pc = WavNext(wav.chunks_left - 1,
                                              wav.remaining_samples),
                               !.chunks_left = @ - 1,
                               !.all_samples = @ \o res.chunk,
                               !.offset = @ + 1]
                  /\ error' = None
    /\ UNCHANGED files
    /\ UNCHANGED lifeVars

\* the final partial block: self.chunk_size = remaining_samples, and the
\* call of _generate_chunk
LegacySaveRest ==
    /\ wav.pc = "rest"
    /\ LET short == [gen EXCEPT !.chunk_size = wav.remaining_samples]
           res == LegacyGenerateChunk(short)
       IN /\ gen' = res.g
          /\ Called(short, res)
          /\ run' = NewRun(res.g)
          /\ IF res.raised # None
             THEN WavRaise(res.raised)
             ELSE /\ wav' = [wav EXCEPT !.pc = "write",
                                        !.all_samples = @ \o res.chunk,
                                        !.offset = @ + 1]
                  /\ error' = None
    /\ UNCHANGED files
    /\ UNCHANGED lifeVars

\* np.concatenate(all_samples).reshape(-1, self.channels) and
\* wavfile.write(...): concatenate raises on an empty list
LegacySaveWrite ==
    /\ wav.pc = "write"
    /\ IF wav.offset = 0 \/ Len(wav.all_samples) % gen.channels # 0
       THEN /\ WavRaise("ValueError")
            /\ UNCHANGED files
       ELSE /\ files' = Append(files,
                    [rate |-> gen.sample_rate,
                     channels |-> gen.channels,
                     frames |-> Len(wav.all_samples) \div gen.channels,
                     samples |-> wav.all_samples])
            /\ wav' = [WavIdle EXCEPT !.calls = wav.calls]
            /\ error' = None
    /\ UNCHANGED <<gen, last, run, nblocks>>
    /\ UNCHANGED lifeVars

\* start(blocking=b) of the earlier class, up to its join: Thread.start()
\* raises RuntimeError on a thread that was started before
LegacyStart(b) ==
    /\ caller.start = "idle" /\ caller.stop = "idle"
    /\ wav.pc = "idle"
    /\ LET bl == IF b # None THEN b = "True" ELSE blocking
       IN /\ blocking' = bl
          /\ IF threads[audio_thread].pc # "unborn"
             THEN /\ error' = "RuntimeError"
                  /\ UNCHANGED <<threads, caller>>
             ELSE /\ threads' = [threads EXCEPT ![audio_thread].pc = "init"]
                  /\ caller' = IF bl
                               THEN [caller EXCEPT !.start = "join",
                                                   !.start_target = audio_thread]
                               ELSE caller
                  /\ error' = None
    /\ UNCHANGED <<audio_thread, exit_event, stream, pyaudio_instance,
                   streams, instances>>
    /\ UNCHANGED genVars

\* the join() a blocking start() ends with returns
LegacyStartReturn ==
    /\ caller.start = "join" /\ caller.stop = "idle"
    /\ threads[caller.start_target].pc = "done"
    /\ caller' = [caller EXCEPT !.start = "idle", !.start_target = NoId]
    /\ UNCHANGED <<blocking, audio_thread, exit_event, stream,
                   pyaudio_instance, threads, streams, instances, error>>
    /\ UNCHANGED genVars

\* stop() of the earlier class, up to its join: Thread.join() raises
\* RuntimeError on a thread that was never started
LegacyStop ==
    /\ caller.stop = "idle"
    /\ wav.pc = "idle"
    /\ exit_event' = TRUE
    /\ IF threads[audio_thread].pc = "unborn"
       THEN /\ error' = "RuntimeError"
            /\ UNCHANGED caller
       ELSE /\ caller' = [caller EXCEPT !.stop = "join",
                                        !.stop_target = audio_thread]
            /\ error' = None
    /\ UNCHANGED <<blocking, audio_thread, stream, pyaudio_instance, threads,
                   streams, instances>>
    /\ UNCHANGED genVars

\* the join() of stop() returns: it has no timeout
LegacyStopReturn ==
    /\ caller.stop = "join"
    /\ threads[caller.stop_target].pc = "done"
    /\ caller' = [caller EXCEPT !.stop = "idle"]
    /\ UNCHANGED <<blocking, audio_thread, exit_event, stream,
                   pyaudio_instance, threads, streams, instances, error>>
    /\ UNCHANGED genVars

\* p = pyaudio.PyAudio(): the instance is a local of the thread
LegacyPlayInit(t) ==
    /\ threads[t].pc = "init"
    /\ \E ok \in BOOLEAN :
         IF ok
         THEN /\ instances' = [instances EXCEPT ![t] = "live"]
              /\ Goto(t, "open")
         ELSE /\ Leave(t, "done", "init_failed")
              /\ UNCHANGED instances
    /\ UNCHANGED <<blocking, audio_thread, exit_event, stream,
                   pyaudio_instance, streams, caller, error>>
    /\ UNCHANGED genVars

\* self.stream = p.open(...), outside the try: when it raises the thread
\* ends and p is never terminated
LegacyPlayOpen(t) ==
    /\ threads[t].pc = "open"
    /\ \E ok \in BOOLEAN :
         IF ok
         THEN /\ streams' = [streams EXCEPT ![t] =
                    [state |-> "open", inst |-> t, written |-> 0,
                     format |-> get_pyaudio_format(gen.bitdepth),
                     dtype |-> None]]
              /\ stream' = t
              /\ Goto(t, "loop")
         ELSE /\ Leave(t, "done", "open_failed")
              /\ UNCHANGED <<streams, stream>>
    /\ UNCHANGED <<blocking, audio_thread, exit_event, pyaudio_instance,
                   instances, caller, error>>
    /\ UNCHANGED genVars

\* the loop test, and on a clear event the block of this iteration
LegacyPlayLoop(t) ==
    /\ threads[t].pc = "loop"
    /\ IF exit_event
       THEN /\ Leave(t, "finally", "stopped")
            /\ UNCHANGED genVars
       ELSE /\ nblocks < MaxLegacyBlocks
            /\ LET res == LegacyGenerateChunk(gen)
               IN /\ gen' = res.g
                  /\ Called(gen, res)
                  /\ run' = NewRun(res.g)
                  /\ IF res.raised # None
                     THEN Leave(t, "finally", "generate_failed")
                     ELSE threads' = [threads EXCEPT ![t].pc = "write",
                                                     ![t].chunk = res.chunk]
            /\ UNCHANGED <<wav, files>>
    /\ UNCHANGED <<blocking, audio_thread, exit_event, stream,
                   pyaudio_instance, streams, instances, caller, error>>

\* self.stream.write(...)
LegacyPlayWrite(t) ==
    /\ threads[t].pc = "write"
    /\ \E ok \in BOOLEAN :
         IF ok
         THEN /\ streams' = [streams EXCEPT ![stream].written = @ + 1,
                                            ![stream].dtype = ChunkDType]
              /\ threads' = [threads EXCEPT ![t].pc = "loop", ![t].chunk = <<>>]
         ELSE /\ threads' = [threads EXCEPT ![t].pc = "finally",
                                            ![t].chunk = <<>>,
                                            ![t].cause = "write_failed"]
              /\ UNCHANGED streams
    /\ UNCHANGED <<blocking, audio_thread, exit_event, stream,
                   pyaudio_instance, instances, caller, error>>
    /\ UNCHANGED genVars

\* the finally clause: stop_stream(), close(), p.terminate()
LegacyPlayFinally(t) ==
    /\ threads[t].pc = "finally"
    /\ streams' = [streams EXCEPT ![stream].state = "closed"]
    /\ instances' = [instances EXCEPT ![t] = "terminated"]
    /\ Goto(t, "done")
    /\ UNCHANGED <<blocking, audio_thread, exit_event, stream,
                   pyaudio_instance, caller, error>>
    /\ UNCHANGED genVars

LegacyPlayAudio(t) ==
    \/ LegacyPlayInit(t)
    \/ LegacyPlayOpen(t)
    \/ LegacyPlayLoop(t)
    \/ LegacyPlayWrite(t)
    \/ LegacyPlayFinally(t)

\* the earlier class under a driver that generates, saves and changes the
\* frequencies
LegacyInit == \E a \in LegacyArgs : ~a.blocking /\ LegacyInitWith(a)
LegacyNext ==
    \/ LegacyCallGenerateChunk
    \/ \E f \in LegacyFreqLists : LegacySetFrequencies(f)
    \/ \E d \in 0..1 : LegacySaveBegin(d)
    \/ LegacySaveChunk
    \/ LegacySaveRest
    \/ LegacySaveWrite
SpecLegacy == LegacyInit /\ [][LegacyNext]_vars

\* the earlier class under a driver that starts, stops and saves
LegacyLifeArgs ==
    {a \in LegacyArgs : a.frequencies = <<1>> /\ a.glitch_type = "NONE"}
LegacyLifeInit == \E a \in LegacyLifeArgs : LegacyInitWith(a)
LegacyLifeNext ==
    \/ \E b \in BlockingArgs : LegacyStart(b)
    \/ LegacyStartReturn
    \/ LegacyStop
    \/ LegacyStopReturn
    \/ LegacyPlayAudio(1)
    \/ LegacySaveBegin(1)
    \/ LegacySaveChunk
    \/ LegacySaveRest
    \/ LegacySaveWrite
SpecLegacyLife == LegacyLifeInit /\ [][LegacyLifeNext]_vars

\* ----------- the file scripts, src/generate_sine_file.py and src/main.py
\* Both fill an integer array sample by sample and write it as sine.wav.
\* The script's arguments and derived values are held in gen, the loop
\* position in wav, the array in wav.all_samples, and the latest store in
\* last.  The volume is a multiple of 1/VolumeOne.
VolumeOne == 10
Int16Max == 32767
Int32Max == 2147483647

\* floor of a * s / SinScale for a >= 0, without forming a * s
Scaled(a, s) ==
    LET whole == (a \div SinScale) * s + ((a % SinScale) * s) \div SinScale
        exact == ((a % SinScale) * s) % SinScale = 0
    IN [floor |-> whole, exact |-> exact]

\* int(x) for the float x = amp * s / SinScale: truncation toward zero
Truncated(amp, s) ==
    IF s >= 0 THEN Scaled(amp, s).floor
    ELSE 0 - Scaled(amp, 0 - s).floor

\* scale = int((pow(2, bit_depth) / 2) - 1) in generate_sine_file.py, and
\* the fixed scale = 32767 of main.py (bit_depth 16)
ScaleOf(bit_depth) == 2 ^ (bit_depth - 1) - 1

\* data_type: np.int32 if bit_depth > 16 else np.int16, as the largest
\* value of the type
TypeMax(bit_depth) == IF bit_depth > 16 THEN Int32Max ELSE Int16Max

\* the low 16 bits of x as a signed number
Wrap16(x) == ((x + Int16Max + 1) % (2 * (Int16Max + 1))) - (Int16Max + 1)

\* samples[sample][channel] = x: the values the integer cell can hold
\* afterwards.  A value of the type is stored as it is; the conversion of
\* a float outside the type is undefined in C, and the builds in use keep
\* the low bits or give the most negative value.
Stored(x, tmax) ==
    IF 0 - tmax - 1 <= x /\ x <= tmax THEN {x}
    ELSE IF tmax = Int16Max THEN {Wrap16(x), 0 - tmax - 1}
    ELSE {0 - tmax - 1}

\* the arguments of a script run: volumes up to 2.0, one or two channels
ScriptVolumes == {0, 8, 10, 15, 20}
ScriptArgs ==
    [sample_rate : {8},
     channels : {1, 2},
     bitdepth : {16, 24},
     frequencies : {<<1, 3>>},
     volume : ScriptVolumes,
     duration : {1000}]

\* main() up to the loops: num_samples, scale, and the zeroed array
ScriptInitWith(a) ==
    /\ gen = [sample_rate |-> a.sample_rate,
              channels |-> a.channels,
              bitdepth |-> a.bitdepth,
              frequencies |-> a.frequencies,
              volume |-> a.volume,
              scale |-> ScaleOf(a.bitdepth),
              num_samples |-> (a.sample_rate * a.duration) \div 1000]
    /\ wav = [pc |-> "fill", channel |-> 1, sample |-> 0,
              all_samples |-> [i \in 1..(((a.sample_rate * a.duration) \div 1000)
                                            * a.channels) |-> 0]]
    /\ last = [called |-> FALSE, x |-> 0, stored |-> 0]
    /\ files = <<>>
    /\ blocking = FALSE
    /\ audio_thread = NoId
    /\ exit_event = FALSE
    /\ stream = NoId
    /\ pyaudio_instance = NoId
    /\ threads = <<>>
    /\ streams = <<>>
    /\ instances = <<>>
    /\ caller = NoCall
    /\ run = [thetas0 |-> <<>>, total |-> 0, out |-> <<>>]
    /\ nblocks = 0
    /\ error = None

\* one round of the inner loop: samples[sample][channel] =
\* amp * math.sin(theta), theta being sample * step
ScriptStore ==
    /\ wav.pc = "fill"
    /\ wav.channel <= gen.channels
    /\ LET amp == (gen.volume * gen.scale) \div VolumeOne
           s == Sin(wav.sample * gen.frequencies[wav.channel], gen.sample_rate)
           x == Truncated(amp, s)
           at == wav.sample * gen.channels + wav.channel
           done == wav.sample + 1 = gen.num_samples
       IN \E v \in Stored(x, TypeMax(gen.bitdepth)) :
            /\ last' = [called |-> TRUE, x |-> x, stored |-> v]
            /\ wav' = [wav EXCEPT
                         !.all_samples = [@ EXCEPT ![at] = v],
                         !.sample = IF done THEN 0 ELSE @ + 1,
                         !.channel = IF done THEN @ + 1 ELSE @]
    /\ UNCHANGED <<gen, files, run, nblocks, error>>
    /\ UNCHANGED lifeVars

\* wavfile.write("sine.wav", fs, samples)
ScriptWrite ==
    /\ wav.pc = "fill"
    /\ wav.channel > gen.channels
    /\ files' = Append(files, [rate |-> gen.sample_rate,
                               channels |-> gen.channels,
                               frames |-> gen.num_samples,
                               samples |-> wav.all_samples])
    /\ wav' = [wav EXCEPT !.pc = "done"]
    /\ UNCHANGED <<gen, last, run, nblocks, error>>
    /\ UNCHANGED lifeVars

ScriptInit == \E a \in ScriptArgs : ScriptInitWith(a)
ScriptNext == ScriptStore \/ ScriptWrite
SpecScript == ScriptInit /\ [][ScriptNext]_vars

\* ------------------------------------------------------------ properties

\* the oscillator output of num_samples frames from phase thetas with the
\* configuration of generator b, and the phase num_samples frames later
CleanFrom(b, thetas, num_samples) ==
    Sines(thetas, b.frequencies, b.sample_rate, b.amplitude, num_samples)
PhaseAfter(b, thetas, num_samples) ==
    [c \in 1..Len(b.frequencies) |->
        (thetas[c] + num_samples * b.frequencies[c]) % b.sample_rate]

\* C1: a start() call made while the thread of an earlier start() is still
\* alive and still held in audio_thread (no stop() in between) raises
\* RuntimeError, creates no thread, and leaves every thread, the event and
\* the streaming resources as they were.
C1_SecondStartRejected ==
    [][((\E b \in BlockingArgs : Start(b))
          /\ audio_thread # NoId /\ threads[audio_thread].pc \notin {"unborn", "done"})
       => (/\ error' = "RuntimeError"
           /\ UNCHANGED <<threads, exit_event, audio_thread, blocking, stream,
                          pyaudio_instance, streams, instances>>)]_vars
C1_Witness ==
    /\ error = "RuntimeError"
    /\ audio_thread # NoId /\ IsAlive(threads, audio_thread)
    /\ threads[audio_thread].pc = "write"

\* C2: the blocks of any run of consecutive _generate_sines calls,
\* concatenated, are the block one call for the sum of their sizes gives
\* from the phase the run started at, and the phase left is the phase that
\* one call leaves.
C2_PhaseContinuity ==
    /\ run.out = CleanFrom(gen, run.thetas0, run.total)
    /\ gen.thetas = PhaseAfter(gen, run.thetas0, run.total)
C2_Witness ==
    /\ run.total = MaxTotal
    /\ Len(gen.frequencies) = 2
    /\ run.thetas0[1] # 0
    /\ \E i \in 1..Len(run.out) : run.out[i] # 0

\* C3: with DROPOUT of size 100 on 2 channels, 1024-frame blocks at 48000
\* Hz and the fixed interval, block number n of a fresh generator is a
\* glitch block exactly when n is a multiple of 47; a glitch block is the
\* oscillator output with its first 200 values zero, every other block is
\* the oscillator output, and the oscillator runs on without a gap.
C3_EveryFortySeventh ==
    last.called =>
        LET b == last.before
            clean == CleanFrom(b, b.thetas, 1024)
        IN /\ last.raised = None
           /\ last.fired <=> (nblocks % 47 = 0)
           /\ b.thetas = PhaseAfter(b, <<0, 0>>, (nblocks - 1) * 1024)
           /\ Len(last.chunk) = 2048
           /\ \A i \in 1..2048 :
                last.chunk[i] = IF last.fired /\ i <= 200 THEN 0 ELSE clean[i]
C3_Witness ==
    /\ nblocks = 94 /\ last.fired
    /\ \A i \in 1..200 : last.chunk[i] = 0
    /\ last.chunk[201] # 0

\* C4: a block returned by a call on which a SKIP glitch of size k fired
\* has chunk_size * channels values, is the oscillator output starting k
\* frames after the phase the call started from, and the call leaves the
\* phase chunk_size + k frames on.
C4_SkipShifts ==
    (last.called /\ last.fired /\ last.raised = None
       /\ last.before.glitch_type = "SKIP") =>
        LET b == last.before
            k == b.glitch_size
        IN /\ Len(last.chunk) = b.chunk_size * b.channels
           /\ last.chunk = CleanFrom(b, PhaseAfter(b, b.thetas, k), b.chunk_size)
           /\ last.thetas = PhaseAfter(b, b.thetas, b.chunk_size + k)

\* C5: a call on which a glitch fires raises nothing and returns one value
\* per frame and channel of the block, whatever the glitch kind and size.
C5_GlitchClamped ==
    (last.called /\ last.fired) =>
        /\ last.raised = None
        /\ Len(last.chunk) = last.before.chunk_size * Len(last.before.frequencies)

C8_OneWrite ==
    [][(wav.pc # "idle" /\ wav'.pc = "idle")
       => (/\ error' = None
           /\ Len(files') = Len(files) + 1
           /\ files'[Len(files')].frames = wav.num_samples
           /\ \A t \in DOMAIN threads : threads'[t].pc = "unborn")]_vars

\* C9: every thread that has ended has had the stream it opened closed and
\* the PyAudio instance it created terminated.
C9_ReleasedOnExit ==
    \A t \in DOMAIN threads :
        threads[t].pc = "done" =>
            /\ streams[t].state # "open"
            /\ instances[t] # "live"

\* C10: once a stop() that found its thread alive has returned without the
\* timeout having passed, that thread has ended and the stream it opened is
\* no longer open.
C10_StopWaits ==
    (caller.stop = "idle" /\ caller.stop_target # NoId /\ ~caller.elapsed)
       => /\ threads[caller.stop_target].pc = "done"
          /\ streams[caller.stop_target].state # "open"

\* C11: a start() made while no thread is alive (every earlier thread has
\* ended, by a completed stop() or by itself) raises nothing, clears the
\* event, and creates one new thread, which audio_thread then names.
C11_StartAgain ==
    [][((\E b \in BlockingArgs : Start(b))
          /\ \A t \in DOMAIN threads : threads[t].pc \in {"unborn", "done"})
       => (/\ error' = None
           /\ exit_event' = FALSE
           /\ audio_thread' # NoId
           /\ threads[audio_thread'].pc = "unborn"
           /\ threads'[audio_thread'].pc = "init"
           /\ \A t \in DOMAIN threads :
                 t # audio_thread' => threads'[t] = threads[t])]_vars
C11_Witness ==
    /\ caller.stop = "idle" /\ caller.stop_target = 1 /\ ~caller.elapsed
    /\ threads[1].pc = "done" /\ threads[1].cause = "stopped"
    /\ streams[1].state = "closed" /\ instances[1] = "terminated"
    /\ exit_event = FALSE
    /\ audio_thread = 2 /\ threads[2].pc = "write"
    /\ streams[2].state = "open" /\ streams[2].written > 0

\* C12: while a thread is in its generation loop, no step other than that
\* thread's own block generation changes the phase, the glitch countdown
\* or the block size, and the driver is not inside save_to_wav.
C12_SingleWriter ==
    [][(\E t \in DOMAIN threads : threads[t].pc \in {"loop", "write"})
       => /\ wav.pc = "idle" /\ wav'.pc = "idle"
          /\ \/ \E t \in DOMAIN threads :
                   threads[t].pc = "loop" /\ threads'[t].pc # "loop"
             \/ /\ gen'.thetas = gen.thetas
                /\ gen'.glitch_timer = gen.glitch_timer
                /\ gen'.next_glitch_chunks = gen.next_glitch_chunks
                /\ gen'.chunk_size = gen.chunk_size]_vars

\* C13: a thread whose sink write raised has written nothing since, and
\* once it has ended the stream it opened is no longer open and a start()
\* is not rejected on its account.
C13_WriteFailureReleases ==
    \A t \in DOMAIN threads :
        (threads[t].cause = "write_failed") =>
            /\ threads[t].pc \in {"fin_stream", "fin_none", "fin_pa",
                                  "fin_pa_none", "done"}
            /\ threads[t].pc = "done" =>
                  /\ streams[t].state # "open"
                  /\ ~(audio_thread = t /\ IsAlive(threads, t))

\* C14: a blocking start() whose thread ended because a sink write raised
\* does not return normally: the caller gets an exception.
C14_SinkErrorReported ==
    [][(/\ caller.start = "join" /\ caller'.start = "idle"
        /\ threads[caller.start_target].cause = "write_failed")
       => error' # None]_vars

\* C15: the channel count equals the number of frequencies and the number
\* of phase accumulators.
C15_ChannelCount ==
    /\ gen.channels = Len(gen.frequencies)
    /\ Len(gen.thetas) = Len(gen.frequencies)

\* C16: the constructor and set_frequencies accept a frequency list
\* exactly when every frequency f has 0 < f <= sample_rate / 2; a
\* rejection is a ValueError, and a rejected set_frequencies leaves the
\* generator as it was.
InRange(frequencies, sample_rate) ==
    \A i \in 1..Len(frequencies) :
        /\ frequencies[i] # NaN
        /\ 0 < frequencies[i]
        /\ 2 * frequencies[i] <= sample_rate
C16_FrequencyValidation ==
    [][/\ \A a \in TryArgs :
            Construct(a) =>
                /\ (error' = None) <=> InRange(a.frequencies, a.sample_rate)
                /\ error' \in {None, "ValueError"}
       /\ \A f \in TryLists :
            SetFrequencies(f) =>
                /\ (error' = None) <=> InRange(f, gen.sample_rate)
                /\ error' \in {None, "ValueError"}
                /\ error' # None => gen' = gen]_vars

\* C17: once stop() has set the event for a thread, the loop test of that
\* thread starts no further block: only the block in flight when the event
\* was set still reaches the sink.
C17_OneMoreBlock ==
    [][\A t \in DOMAIN threads :
         (caller.stop_target = t /\ threads[t].pc = "loop")
            => threads'[t].pc # "write"]_vars

\* C18: a blocking start() returns only once its thread has ended; a
\* non-blocking start() returns in the same step with its thread started
\* and running; and a thread leaves its loop without an error only on a
\* set event, which only stop() sets.
C18_StartModes ==
    [][/\ (caller.start = "join" /\ caller'.start = "idle")
            => threads[caller.start_target].pc = "done"
       /\ ((\E b \in BlockingArgs : Start(b)) /\ error' = None)
            => /\ threads'[audio_thread'].pc = "init"
               /\ blocking' => (caller'.start = "join"
                                  /\ caller'.start_target = audio_thread')
               /\ ~blocking' => caller'.start = "idle"
       /\ \A t \in DOMAIN threads :
            (threads[t].pc = "loop" /\ threads'[t].pc = "fin_stream"
               /\ threads'[t].cause = "stopped") => exit_event
       /\ (~exit_event /\ exit_event') => Stop]_vars
C18_Witness ==
    /\ blocking /\ caller.start = "idle" /\ caller.stop = "idle"
    /\ threads[1].pc = "done" /\ threads[1].cause = "stopped"
    /\ streams[1].written > 0
    /\ threads[2].pc = "unborn"

\* C19: a stop() that waits for its thread always returns; it returns
\* without raising and with audio_thread cleared, it warns exactly when the
\* thread is still alive at its return, which happens only after the
\* timeout has passed, so that the guard of the next start() passes.
C19_StopReturns ==
    /\ (caller.stop = "join") ~> (caller.stop = "idle")
    /\ [][(caller.stop = "join" /\ caller'.stop = "idle")
            => /\ error' = None
               /\ audio_thread' = NoId
               /\ caller'.warned
                    <=> threads[caller.stop_target].pc \notin {"unborn", "done"}
               /\ caller'.warned => caller.elapsed]_vars
C19_Witness ==
    /\ caller.stop = "idle" /\ caller.warned /\ caller.elapsed
    /\ caller.stop_target = 1
    /\ threads[1].pc = "write"
    /\ audio_thread = NoId /\ error = None

\* C20: no call of _generate_chunk made on a constructed generator, by a
\* direct call or by save_to_wav, raises, and no step of save_to_wav after
\* its duration check raises.
C20_NoErrorInSteadyState ==
    [][/\ nblocks' # nblocks => last'.raised = None
       /\ wav.pc \in {"chunks", "rest", "write"} => error' = None]_vars

\* C21: a step that changes the number of frequencies leaves one phase per
\* new frequency, every one of them zero.
C21_CountChangeResets ==
    [][Len(gen'.frequencies) # Len(gen.frequencies)
       => gen'.thetas = [c \in 1..Len(gen'.frequencies) |-> 0]]_vars

\* C22: every sample a script stores lies in the range of the configured
\* bit depth and is the converted value clamped to that range.
C22_Saturates ==
    (wav.pc = "fill" /\ last.called) =>
        LET hi == ScaleOf(gen.bitdepth)
            lo == 0 - hi - 1
        IN /\ lo <= last.stored /\ last.stored <= hi
           /\ last.stored = Max(lo, Min(hi, last.x))

\* C23: when a glitch fires, the number of unglitched blocks generated
\* since the previous glitch block lies between the block counts of the
\* two ends of the interval range at the configured block size.
C23_GapWithinRange ==
    [][(nblocks' = nblocks + 1 /\ last'.fired)
       => LET lo == (gen.glitch_interval_range[1] * gen.sample_rate)
                        \div (1000 * gen.chunk_size)
              hi == (gen.glitch_interval_range[2] * gen.sample_rate)
                        \div (1000 * gen.chunk_size)
          IN lo <= gen.glitch_timer /\ gen.glitch_timer <= hi]_vars

\* C24: the bytes a stream has been handed are of the element type of
\* the format it was opened with.
C24_FormatAgrees ==
    \A s \in DOMAIN streams :
        streams[s].written > 0
            => streams[s].dtype = FormatDType(streams[s].format)

C26_OneActivity ==
    Cardinality({t \in DOMAIN threads :
                    threads[t].pc \notin {"unborn", "done"}}) <= 1

\* C27: every step, the call that generates the final partial block of a
\* save_to_wav included, whether it returns or raises, leaves the block
\* size as it was.
C27_BlockSizeKept == [][gen'.chunk_size = gen.chunk_size]_vars

\* C28: a stop() of the earlier class called while no thread of the
\* generator is alive (never
\* started, stopped before, or after a save_to_wav) raises nothing, starts
\* no thread and leaves the generator's configuration, phase and glitch
\* countdown as they were.
C28_StopIsSafe ==
    [][(LegacyStop
        /\ \A t \in DOMAIN threads : threads[t].pc \in {"unborn", "done"})
       => (error' = None /\ threads' = threads /\ gen' = gen)]_vars

\* C11, on the earlier class: a start() called after a run whose thread has
\* ended raises nothing and leaves a newly started thread and a clear event.
C11_LegacyStartAgain ==
    [][((\E b \in BlockingArgs : LegacyStart(b))
        /\ \A t \in DOMAIN threads : threads[t].pc = "done")
       => (/\ error' = None
           /\ exit_event' = FALSE
           /\ threads'[audio_thread'].pc = "init")]_vars

====
